---- MODULE Spec2Model ----
(***************************************************************************)
(* Docker Network Mapper, browser client (static/js/app.js).               *)
(*                                                                         *)
(* The client keeps two vis.DataSet stores (allNodes, allEdges) as a       *)
(* mirror of the last snapshot it applied.  Snapshots arrive as pull       *)
(* responses (loadData) and as push messages (ws.onmessage).  A 30 s       *)
(* interval timer re-pulls while dockerAvailable is set, and the           *)
(* WebSocket reconnects 5 s after every close.                             *)
(*                                                                         *)
(* JavaScript runs every handler to completion on one thread, so each      *)
(* handler is one action.  A value that may be undefined in JavaScript     *)
(* (a missing payload field) is a sequence of length 0 or 1.  The export,  *)
(* help, view and physics controls and network.fit write none of the       *)
(* state below and have no action.                                         *)
(***************************************************************************)
EXTENDS Integers, Sequences, FiniteSets, TLC

VARIABLES
    allNodes,        \* vis.DataSet of node items, in insertion order
    allEdges,        \* vis.DataSet of edge items, in insertion order
    dockerAvailable, \* the module-level flag
    overlay,         \* #noDataOverlay carries the class 'show'
    stats,           \* the four .stat-number texts
    containerList,   \* the items rendered into #containerList
    ops,             \* the calls on the stores and on setTimeout that the last
                     \* updateVisualization issued, in order
    pulls,           \* axios.get('/api/network-data') requests in flight
    sockets,         \* WebSocket objects whose handlers can still fire
    reconnectTimers, \* pending setTimeout(connectWebSocket, 5000)
    connected,       \* #connectionStatus shows 'connected'
    last             \* the handler that ran last, with its input and output

vars == <<allNodes, allEdges, dockerAvailable, overlay, stats, containerList,
          ops, pulls, sockets, reconnectTimers, connected, last>>

(***************************************************************************)
(* Bounds of the model.                                                    *)
(***************************************************************************)
MaxConns == 2
MaxInFlight == 2

(***************************************************************************)
(* Program constants.                                                      *)
(***************************************************************************)
ShortIdLen == 8
ListIdLen == 12

(***************************************************************************)
(* Payload data.  Container ids are character sequences, so that           *)
(* id.substring(0, 8) is computed; IdA and IdB share their first 8         *)
(* characters.                                                             *)
(***************************************************************************)
IdA == <<"4", "f", "6", "6", "a", "d", "0", "9", "a">>
IdB == <<"4", "f", "6", "6", "a", "d", "0", "9", "b">>
Ids == {IdA, IdB}
IdOrder == <<IdA, IdB>>

Statuses == {"running", "exited"}
NameOf(id) == IF id = IdA THEN "web" ELSE "db"

Min(a, b) == IF a <= b THEN a ELSE b

SeqRange(s) == {s[i] : i \in 1..Len(s)}

Absent == <<>>
Some(v) == <<v>>

Containers == [status : Statuses, image : {"nginx:latest"}]
ContainerOf(id, c) == [name |-> NameOf(id), image |-> c.image, status |-> c.status]
WellNamed(m) == \A id \in DOMAIN m : m[id].name = NameOf(id)
ContainerMaps == {m \in UNION {[D -> {ContainerOf(id, c) : id \in D, c \in Containers}] : D \in SUBSET Ids} : WellNamed(m)}

EdgeIds == 1..MaxConns
Conns == {c \in [id : EdgeIds, source : Ids, target : Ids, network : {"app-net"}] : c.source # c.target}
DistinctIds(cs) == \A i, j \in 1..Len(cs) : cs[i].id = cs[j].id => i = j
ConnSeqs == {cs \in UNION {[1..n -> Conns] : n \in 0..MaxConns} : DistinctIds(cs)}

SummaryKeys == {"total_containers", "running_containers", "total_networks", "total_connections"}
SummaryOf(c, e) == [k \in SummaryKeys |-> CASE k = "total_containers" -> Cardinality(DOMAIN c) [] k = "running_containers" -> Cardinality({id \in DOMAIN c : c[id].status = "running"}) [] k = "total_networks" -> Cardinality({e[i].network : i \in 1..Len(e)}) [] OTHER -> Len(e)]
EmptyObject == [k \in {} |-> 0]

(***************************************************************************)
(* JavaScript expressions of the handlers.                                 *)
(***************************************************************************)
\* x !== false, for x in {true, false, undefined}
NotFalse(x) == x # "false"

\* the truthiness of an error field: undefined, null and "" are falsy
Truthy(x) == x \notin {"absent", "null", ""}

\* s.substring(0, n)
substring(s, n) == SubSeq(s, 1, Min(n, Len(s)))

\* summary.key || 0
OrZero(summary, key) == IF key \in DOMAIN summary /\ summary[key] # 0 THEN summary[key] ELSE 0

\* Object.entries(containers) / Object.keys(containers), in key order
Keys(containers) == SelectSeq(IdOrder, LAMBDA id : id \in DOMAIN containers)

MsgDockerUnavailable == "Docker nedostupen"
MsgConnectionError == "Oshibka podklyucheniya"

ColorRunning == [background |-> "#dcfce7", border |-> "#16a34a"]
ColorStopped == [background |-> "#fecaca", border |-> "#dc2626"]

\* a comparison of the status that ignored its case
NodeColorAnyCase(status) == IF status \in {"running", "Running"} THEN ColorRunning ELSE ColorStopped

NodeColor(status) == IF status = "running" THEN ColorRunning ELSE ColorStopped

NodeLabel(id, container) == [name |-> container.name, short |-> substring(id, ShortIdLen), icon |-> IF container.status = "running" THEN "green" ELSE "red", status |-> container.status]

NodeItem(id, container) == [id |-> id, label |-> NodeLabel(id, container), color |-> NodeColor(container.status), shape |-> "box"]

EdgeItem(conn) == [id |-> conn.id, from |-> conn.source, to |-> conn.target, label |-> conn.network, arrows |-> "to"]

ListItem(id, container) == [running |-> container.status = "running", name |-> container.name, short |-> substring(id, ListIdLen), image |-> container.image]

(***************************************************************************)
(* vis.DataSet: items in insertion order.  add() throws on an id the store *)
(* already holds; no call of the program passes one, since both stores are *)
(* cleared before every add and the ids within a payload are distinct.     *)
(***************************************************************************)
DataSetClear(ds) == <<>>
DataSetAdd(ds, items) == ds \o items
ItemIds(ds) == [i \in 1..Len(ds) |-> ds[i].id]

(***************************************************************************)
(* The handlers, as functions of the page state st: a record of the        *)
(* variables a handler can write, with                                     *)
(*   errors    the messages the handler passed to showError,               *)
(*   threw     whether an exception is propagating, and                    *)
(*   rendered  whether the handler took its available branch.              *)
(***************************************************************************)
Page == [dockerAvailable |-> dockerAvailable, overlay |-> overlay, allNodes |-> allNodes, allEdges |-> allEdges, stats |-> stats, containerList |-> containerList, ops |-> ops, errors |-> <<>>, threw |-> FALSE, rendered |-> FALSE]

Throw(st) == [st EXCEPT !.threw = TRUE]

Call(op, store, items) == [op |-> op, store |-> store, ids |-> ItemIds(items)]

\* Object.entries(undefined) and undefined.map(...) throw a TypeError before
\* any store is touched.
UpdateVisualizationWith(st, data, clears, minNodes, edgesFirst) ==
    IF data.containers = Absent \/ data.connections = Absent THEN Throw(st)
    ELSE LET containers == data.containers[1]
             connections == data.connections[1]
             keys == Keys(containers)
             nodes == [i \in 1..Len(keys) |-> NodeItem(keys[i], containers[keys[i]])]
             edges == [i \in 1..Len(connections) |-> EdgeItem(connections[i])]
             n1 == IF clears THEN DataSetClear(st.allNodes) ELSE st.allNodes
             e1 == IF clears THEN DataSetClear(st.allEdges) ELSE st.allEdges
             n2 == IF Len(nodes) > minNodes THEN DataSetAdd(n1, nodes) ELSE n1
             e2 == IF Len(edges) > 0 THEN DataSetAdd(e1, edges) ELSE e1
             addN == IF Len(nodes) > minNodes THEN <<Call("add", "nodes", nodes)>> ELSE <<>>
             addE == IF Len(edges) > 0 THEN <<Call("add", "edges", edges)>> ELSE <<>>
             log == (IF clears THEN <<Call("clear", "nodes", <<>>), Call("clear", "edges", <<>>)>> ELSE <<>>)
                    \o (IF edgesFirst THEN addE \o addN ELSE addN \o addE)
                    \o (IF Len(nodes) > 0 THEN <<Call("setTimeout", "fit", <<>>)>> ELSE <<>>)
         IN  [st EXCEPT !.allNodes = n2, !.allEdges = e2, !.ops = log]

\* updateVisualization without its two clear() calls
updateVisualizationNoClear(st, data) == UpdateVisualizationWith(st, data, FALSE, 0, FALSE)

\* updateVisualization with `nodes.length > 1` guarding allNodes.add
updateVisualizationOffByOne(st, data) == UpdateVisualizationWith(st, data, TRUE, 1, FALSE)

\* updateVisualization with allEdges.add before allNodes.add
updateVisualizationEdgesFirst(st, data) == UpdateVisualizationWith(st, data, TRUE, 0, TRUE)

\* updateVisualization that built the edge items only after allNodes.add: a
\* payload without connections throws with the stores half written
updateVisualizationLateEdges(st, data) ==
    IF data.containers = Absent THEN Throw(st)
    ELSE IF data.connections = Absent
         THEN LET keys == Keys(data.containers[1])
                  nodes == [i \in 1..Len(keys) |-> NodeItem(keys[i], data.containers[1][keys[i]])]
              IN  Throw([st EXCEPT !.allNodes = nodes, !.allEdges = <<>>, !.ops = <<Call("clear", "nodes", <<>>), Call("clear", "edges", <<>>)>> \o (IF Len(nodes) > 0 THEN <<Call("add", "nodes", nodes)>> ELSE <<>>)])
         ELSE UpdateVisualizationWith(st, data, TRUE, 0, FALSE)

updateVisualization(st, data) ==
    IF data.containers = Absent \/ data.connections = Absent THEN Throw(st)
    ELSE LET containers == data.containers[1]
             connections == data.connections[1]
             keys == Keys(containers)
             nodes == [i \in 1..Len(keys) |-> NodeItem(keys[i], containers[keys[i]])]
             edges == [i \in 1..Len(connections) |-> EdgeItem(connections[i])]
             n1 == DataSetClear(st.allNodes)
             e1 == DataSetClear(st.allEdges)
             n2 == IF Len(nodes) > 0 THEN DataSetAdd(n1, nodes) ELSE n1
             e2 == IF Len(edges) > 0 THEN DataSetAdd(e1, edges) ELSE e1
             log == <<Call("clear", "nodes", <<>>), Call("clear", "edges", <<>>)>>
                    \o (IF Len(nodes) > 0 THEN <<Call("add", "nodes", nodes)>> ELSE <<>>)
                    \o (IF Len(edges) > 0 THEN <<Call("add", "edges", edges)>> ELSE <<>>)
                    \o (IF Len(nodes) > 0 THEN <<Call("setTimeout", "fit", <<>>)>> ELSE <<>>)
         IN  [st EXCEPT !.allNodes = n2, !.allEdges = e2, !.ops = log]

\* The stores after each of the store calls of updateVisualization, in the
\* order of the source: allNodes.clear(), allEdges.clear(), allNodes.add(nodes),
\* allEdges.add(edges).  The network is subscribed to both stores and sees each.
updateVisualizationSteps(st, data) ==
    LET containers == data.containers[1]
        connections == data.connections[1]
        keys == Keys(containers)
        nodes == [i \in 1..Len(keys) |-> NodeItem(keys[i], containers[keys[i]])]
        edges == [i \in 1..Len(connections) |-> EdgeItem(connections[i])]
        n1 == DataSetClear(st.allNodes)
        e1 == DataSetClear(st.allEdges)
        n2 == IF Len(nodes) > 0 THEN DataSetAdd(n1, nodes) ELSE n1
        e2 == IF Len(edges) > 0 THEN DataSetAdd(e1, edges) ELSE e1
    IN  <<[allNodes |-> n1, allEdges |-> st.allEdges],
          [allNodes |-> n1, allEdges |-> e1],
          [allNodes |-> n2, allEdges |-> e1],
          [allNodes |-> n2, allEdges |-> e2]>>

\* summary.total_containers throws a TypeError when summary is undefined.
updateSummary(st, summary) ==
    IF summary = Absent THEN Throw(st)
    ELSE [st EXCEPT !.stats = [statContainers |-> OrZero(summary[1], "total_containers"),
                               statRunning |-> OrZero(summary[1], "running_containers"),
                               statNetworks |-> OrZero(summary[1], "total_networks"),
                               statConnections |-> OrZero(summary[1], "total_connections")]]

\* The placeholder is the empty list.
updateContainerList(st, containers) ==
    IF containers = Absent THEN Throw(st)
    ELSE LET keys == Keys(containers[1])
         IN  [st EXCEPT !.containerList = [i \in 1..Len(keys) |-> ListItem(keys[i], containers[1][keys[i]])]]

updateUIForDockerStatus(st) == [st EXCEPT !.overlay = ~st.dockerAvailable]

showError(st, message) == [st EXCEPT !.errors = Append(@, message)]

showNoDataOverlay(st) == [st EXCEPT !.overlay = TRUE]

hideNoDataOverlay(st) == [st EXCEPT !.overlay = FALSE]

\* The statements of the available branch, in order; an exception skips the rest.
render(st, data) ==
    LET s1 == updateVisualization([st EXCEPT !.rendered = TRUE], data)
        s2 == IF s1.threw THEN s1 ELSE updateSummary(s1, data.summary)
        s3 == IF s2.threw THEN s2 ELSE updateContainerList(s2, data.containers)
    IN  IF s3.threw THEN s3 ELSE hideNoDataOverlay(s3)

\* catch (error) of loadData
loadDataCatch(st) == showNoDataOverlay(showError([st EXCEPT !.threw = FALSE], MsgConnectionError))

\* loadData with `if (dockerAvailable)` as its gate, the error field ignored
loadDataResolvedIgnoringError(st, data) ==
    LET s0 == [st EXCEPT !.dockerAvailable = NotFalse(data.docker_available)]
        s1 == updateUIForDockerStatus(s0)
        s2 == IF s1.dockerAvailable
              THEN render(s1, data)
              ELSE showNoDataOverlay(showError(s1, IF Truthy(data.error) THEN data.error ELSE MsgDockerUnavailable))
    IN  IF s2.threw THEN loadDataCatch(s2) ELSE s2

\* loadData after the request resolved with response.data = data
loadDataResolved(st, data) ==
    LET s0 == [st EXCEPT !.dockerAvailable = NotFalse(data.docker_available)]
        s1 == updateUIForDockerStatus(s0)
        s2 == IF s1.dockerAvailable /\ ~Truthy(data.error)
              THEN render(s1, data)
              ELSE showNoDataOverlay(showError(s1, IF Truthy(data.error) THEN data.error ELSE MsgDockerUnavailable))
    IN  IF s2.threw THEN loadDataCatch(s2) ELSE s2

\* loadData after the request rejected
loadDataRejected(st) == loadDataCatch(st)

\* ws.onmessage with JSON.parse(event.data) = data; nothing catches an exception
onmessage(st, data) ==
    LET s0 == [st EXCEPT !.dockerAvailable = NotFalse(data.docker_available)]
        s1 == updateUIForDockerStatus(s0)
    IN  IF s1.dockerAvailable /\ ~Truthy(data.error) THEN render(s1, data) ELSE s1

\* setInterval(() => dockerAvailable && loadData(), 30000): whether it calls loadData
timerCallsLoadData(flag) == flag

\* ws.onclose without its setTimeout
oncloseTimersNone(n) == n

\* ws.onerror that scheduled connectWebSocket as ws.onclose does
onerrorTimersScheduling(n) == n + 1

\* ws.onclose schedules connectWebSocket; ws.onerror does not
oncloseTimers(n) == n + 1
onerrorTimers(n) == n

(***************************************************************************)
(* Payloads: what /api/network-data answers and what /ws pushes.  A        *)
(* complete payload carries containers, connections and summary; a partial *)
(* one lacks some of them (the backend's unavailable answer carries none). *)
(***************************************************************************)
DockerAvailableValues == {"true", "false", "absent"}
ErrorValues == {"absent", "null", "daemon down"}

Payload(da, err, c, e, s) == [docker_available |-> da, error |-> err, containers |-> c, connections |-> e, summary |-> s]

Complete(da, err, c, e) == Payload(da, err, Some(c), Some(e), Some(SummaryOf(c, e)))

Drop(p, fields) == [f \in DOMAIN p |-> IF f \in fields THEN Absent ELSE p[f]]

\* Scenario 1 of the specification: web and db running, one link on app-net.
Scenario1 == Complete("true", "absent", [id \in Ids |-> [name |-> NameOf(id), image |-> "nginx:latest", status |-> "running"]], <<[id |-> 1, source |-> IdA, target |-> IdB, network |-> "app-net"]>>)

\* Every container mapping, with the link of scenario 1: the link dangles
\* where a container is missing.
SnapshotPayloads == {Complete("true", "absent", c, Scenario1.connections[1]) : c \in ContainerMaps}

\* The empty snapshot: no containers, no connections.
EmptySnapshot == Complete("true", "absent", <<>>, <<>>)

\* Every combination of the two gate fields, on scenario 1, on the empty
\* snapshot and on a payload that carries nothing else.
GatePayloads == {[p EXCEPT !.docker_available = da, !.error = err] : da \in DockerAvailableValues, err \in ErrorValues, p \in {Scenario1, EmptySnapshot, Drop(Scenario1, {"containers", "connections", "summary"})}}

\* Scenario 1 with some of its fields missing, or with an empty summary.
PartialPayloads == {Drop(Scenario1, fs) : fs \in SUBSET {"containers", "connections", "summary"}} \cup {[Scenario1 EXCEPT !.summary = Some(EmptyObject)]}

Payloads == SnapshotPayloads \cup GatePayloads \cup PartialPayloads

\* Every snapshot of the data model, for the reconciler alone.
Snapshots == {Complete("true", "absent", c, e) : c \in ContainerMaps, e \in ConnSeqs}

\* Statuses that are not 'running': another state of a container, and the
\* same word in another case.
OtherStatuses == {"paused", "Running"}

\* Both containers, unconnected, under every pair of statuses.
StatusSnapshots == {Complete("true", "absent", [id \in Ids |-> [name |-> NameOf(id), image |-> "nginx:latest", status |-> IF id = IdA THEN sA ELSE sB]], <<>>) : sA, sB \in Statuses \cup OtherStatuses}

(***************************************************************************)
(* State after the script ran and DOMContentLoaded fired: both stores      *)
(* empty, the first loadData request in flight, the first socket           *)
(* connecting.  The page markup starts with the overlay hidden, the        *)
(* indicator disconnected, the counters 0 and the list empty.              *)
(***************************************************************************)
\* The record of a handler's run: its kind and input, whether the request it
\* answers was overtaken by a push (stale), whether it is a reconciliation that
\* repeats the one before it, what it did (rendered, threw, errors) and whether
\* it called loadData.
Event(kind, data, stale, st, issued) == [kind |-> kind, data |-> data, stale |-> stale, repeat |-> kind = "reconcile" /\ last.kind = kind /\ last.data = data, rendered |-> st.rendered, threw |-> st.threw, errors |-> st.errors, issued |-> issued]

Quiet == [rendered |-> FALSE, threw |-> FALSE, errors |-> <<>>]

Init ==
    /\ allNodes = <<>>
    /\ allEdges = <<>>
    /\ dockerAvailable = FALSE
    /\ overlay = FALSE
    /\ stats = [statContainers |-> 0, statRunning |-> 0, statNetworks |-> 0, statConnections |-> 0]
    /\ containerList = <<>>
    /\ ops = <<>>
    /\ pulls = [fresh |-> 1, stale |-> 0]
    /\ sockets = [connecting |-> 1, open |-> 0, failed |-> 0]
    /\ reconnectTimers = 0
    /\ connected = FALSE
    /\ last = [kind |-> "init", data |-> Absent, stale |-> FALSE, repeat |-> FALSE, rendered |-> FALSE, threw |-> FALSE, errors |-> <<>>, issued |-> TRUE]

Commit(st) ==
    /\ dockerAvailable' = st.dockerAvailable
    /\ overlay' = st.overlay
    /\ allNodes' = st.allNodes
    /\ allEdges' = st.allEdges
    /\ stats' = st.stats
    /\ containerList' = st.containerList
    /\ ops' = st.ops

pageVars == <<allNodes, allEdges, dockerAvailable, overlay, stats, containerList, ops>>
socketVars == <<sockets, reconnectTimers, connected>>

InFlight == pulls.fresh + pulls.stale

\* loadData up to its await: one more request in flight
loadData == pulls' = [pulls EXCEPT !.fresh = @ + 1]

\* one request of the class `stale` leaves the flight
Settle(stale) ==
    /\ pulls[IF stale THEN "stale" ELSE "fresh"] > 0
    /\ pulls' = [pulls EXCEPT ![IF stale THEN "stale" ELSE "fresh"] = @ - 1]

\* A client that numbered its requests would drop a response overtaken by a push.
PullResponseDroppingStale(data, stale) ==
    /\ Settle(stale)
    /\ \E st \in {IF stale THEN Page ELSE loadDataResolved(Page, data)} :
           Commit(st) /\ last' = Event("pull", Some(data), stale, st, FALSE)
    /\ UNCHANGED socketVars

\* A pull request resolves with `data`.
PullResponse(data, stale) ==
    /\ Settle(stale)
    /\ \E st \in {loadDataResolved(Page, data)} :
           Commit(st) /\ last' = Event("pull", Some(data), stale, st, FALSE)
    /\ UNCHANGED socketVars

\* A pull request rejects (network error, timeout, non-2xx status).
PullFailure(stale) ==
    /\ Settle(stale)
    /\ \E st \in {loadDataRejected(Page)} :
           Commit(st) /\ last' = Event("pullFailure", Absent, stale, st, FALSE)
    /\ UNCHANGED socketVars

\* window.dockerMapper.reload()
Reload ==
    /\ InFlight < MaxInFlight
    /\ loadData
    /\ last' = Event("reload", Absent, FALSE, Quiet, TRUE)
    /\ UNCHANGED <<pageVars, socketVars>>

\* The 30 s interval fires.
TimerTick ==
    /\ IF timerCallsLoadData(dockerAvailable)
       THEN InFlight < MaxInFlight /\ loadData
       ELSE UNCHANGED pulls
    /\ last' = Event("tick", Absent, FALSE, Quiet, timerCallsLoadData(dockerAvailable))
    /\ UNCHANGED <<pageVars, socketVars>>

\* ws.onopen
SocketOpen ==
    /\ sockets.connecting > 0
    /\ sockets' = [sockets EXCEPT !.connecting = @ - 1, !.open = @ + 1]
    /\ connected' = TRUE
    /\ last' = Event("open", Absent, FALSE, Quiet, FALSE)
    /\ UNCHANGED <<pageVars, pulls, reconnectTimers>>

\* ws.onmessage on an open socket.  A push that was applied makes every
\* request still in flight a stale one.
SocketMessage(data) ==
    /\ sockets.open > 0
    /\ \E st \in {onmessage(Page, data)} :
           /\ Commit(st)
           /\ last' = Event("push", Some(data), FALSE, st, FALSE)
           /\ pulls' = IF st.rendered /\ ~st.threw THEN [fresh |-> 0, stale |-> InFlight] ELSE pulls
    /\ UNCHANGED socketVars

\* ws.onerror: the browser fires error on a connecting or open socket that
\* fails, and always fires close after it.
SocketError(from) ==
    /\ sockets[from] > 0
    /\ sockets' = [sockets EXCEPT ![from] = @ - 1, !.failed = @ + 1]
    /\ connected' = FALSE
    /\ reconnectTimers' = onerrorTimers(reconnectTimers)
    /\ last' = Event("error", Absent, FALSE, Quiet, FALSE)
    /\ UNCHANGED <<pageVars, pulls>>

\* ws.onclose that also showed the no-data overlay
SocketCloseShowingOverlay(from) ==
    /\ sockets[from] > 0
    /\ sockets' = [sockets EXCEPT ![from] = @ - 1]
    /\ connected' = FALSE
    /\ reconnectTimers' = oncloseTimers(reconnectTimers)
    /\ overlay' = TRUE
    /\ last' = Event("close", Absent, FALSE, Quiet, FALSE)
    /\ UNCHANGED <<allNodes, allEdges, dockerAvailable, stats, containerList, ops, pulls>>

\* ws.onclose: the last event of a socket.
SocketClose(from) ==
    /\ sockets[from] > 0
    /\ sockets' = [sockets EXCEPT ![from] = @ - 1]
    /\ connected' = FALSE
    /\ reconnectTimers' = oncloseTimers(reconnectTimers)
    /\ last' = Event("close", Absent, FALSE, Quiet, FALSE)
    /\ UNCHANGED <<pageVars, pulls>>

\* connectWebSocket that set the indicator to connected as soon as it created
\* the socket
connectWebSocketShowingConnected ==
    /\ reconnectTimers > 0
    /\ reconnectTimers' = reconnectTimers - 1
    /\ sockets' = [sockets EXCEPT !.connecting = @ + 1]
    /\ connected' = TRUE
    /\ last' = Event("reconnect", Absent, FALSE, Quiet, FALSE)
    /\ UNCHANGED <<pageVars, pulls>>

\* The 5 s reconnect timer fires: connectWebSocket creates a new socket.
connectWebSocket ==
    /\ reconnectTimers > 0
    /\ reconnectTimers' = reconnectTimers - 1
    /\ sockets' = [sockets EXCEPT !.connecting = @ + 1]
    /\ last' = Event("reconnect", Absent, FALSE, Quiet, FALSE)
    /\ UNCHANGED <<pageVars, pulls, connected>>

Next ==
    \/ \E data \in Payloads, stale \in BOOLEAN : PullResponse(data, stale)
    \/ \E stale \in BOOLEAN : PullFailure(stale)
    \/ Reload
    \/ TimerTick
    \/ SocketOpen
    \/ \E data \in Payloads : SocketMessage(data)
    \/ \E from \in {"connecting", "open"} : SocketError(from)
    \/ \E from \in {"connecting", "open", "failed"} : SocketClose(from)
    \/ connectWebSocket

Spec == Init /\ [][Next]_vars

(***************************************************************************)
(* The program with the fairness its platform guarantees: a pending        *)
(* reconnect timer fires, and the browser fires close after error.         *)
(***************************************************************************)
LiveSpec == Spec /\ WF_vars(connectWebSocket) /\ WF_vars(SocketClose("failed"))

(***************************************************************************)
(* The reconciler alone: updateVisualization applied to every snapshot of  *)
(* the data model, from every mirror it can have built.                    *)
(***************************************************************************)
Reconcile(data) ==
    /\ \E st \in {updateVisualization(Page, data)} :
           Commit(st) /\ last' = Event("reconcile", Some(data), FALSE, st, FALSE)
    /\ UNCHANGED <<pulls, socketVars>>

ReconNext == \E data \in Snapshots \cup StatusSnapshots : Reconcile(data)

ReconSpec == Init /\ [][ReconNext]_vars

(***************************************************************************)
(* The claims.  Their vocabulary is the specification's, defined on the    *)
(* payload and on the stores, not by the handlers' operators.              *)
(***************************************************************************)
\* The payload declares unavailability: docker_available is explicitly false,
\* or an error is present (null is the specification's "no error").
DeclaresUnavailable(p) == p.docker_available = "false" \/ p.error \notin {"absent", "null"}

\* The payload carries the three fields the reconciliation reads.
IsComplete(p) == p.containers # Absent /\ p.connections # Absent /\ p.summary # Absent

\* The event is the arrival of a payload on the pull or on the push path.
IsArrival(e) == e.kind \in {"pull", "push"}

\* The stores hold exactly p's containers as nodes and p's connections as edges.
HoldsExactly(nodes, edges, p) ==
    /\ Len(nodes) = Cardinality(DOMAIN p.containers[1])
    /\ {nodes[i].id : i \in 1..Len(nodes)} = DOMAIN p.containers[1]
    /\ Len(edges) = Len(p.connections[1])
    /\ \A i \in 1..Len(edges) :
           /\ edges[i].id = p.connections[1][i].id
           /\ edges[i].from = p.connections[1][i].source
           /\ edges[i].to = p.connections[1][i].target

\* C1: a payload that declares unavailability, arriving as a pull response or
\* as a push message, leaves the node store, the edge store and the container
\* list exactly as they were, whatever they held.
C1_UnavailableLeavesMirror == [][(IsArrival(last') /\ DeclaresUnavailable(last'.data[1])) => UNCHANGED <<allNodes, allEdges, containerList>>]_vars

\* C1's case: after a push message with docker_available false, the mirror
\* still holds the two nodes and the edge it held, and the list its two items.
C1_Witness == last.kind = "push" /\ last.data[1].docker_available = "false" /\ Len(allNodes) = 2 /\ Len(allEdges) = 1 /\ Len(containerList) = 2

\* C2: a payload takes the available branch iff it does not declare
\* unavailability, and after any payload that declares unavailability is
\* processed, on either path, the overlay is shown.
C2_UnavailableShowsOverlay == IsArrival(last) => ((last.rendered <=> ~DeclaresUnavailable(last.data[1])) /\ (DeclaresUnavailable(last.data[1]) => overlay))

\* C3: after a complete payload that does not declare unavailability is
\* processed, on either path, the mirror holds exactly its containers as nodes
\* and its connections as edges, and the overlay is hidden.
C3_AvailableReplacesMirror == (IsArrival(last) /\ ~DeclaresUnavailable(last.data[1]) /\ IsComplete(last.data[1])) => (HoldsExactly(allNodes, allEdges, last.data[1]) /\ ~overlay)

\* C3's case: a push message with docker_available true, a null error and no
\* containers or connections was processed, and the mirror is empty.
C3_Witness == last.kind = "push" /\ last.data[1].docker_available = "true" /\ last.data[1].error = "null" /\ last.data[1].containers = Some(<<>>) /\ last.data[1].connections = Some(<<>>) /\ allNodes = <<>> /\ allEdges = <<>> /\ ~overlay

\* C4: last write wins by arrival order.  Every arrival of a complete payload
\* that does not declare unavailability, stale or not, makes the mirror that
\* payload's image, and no step that is not the arrival of such a payload
\* changes the mirror.
C4_LastArrivalWins == [][/\ (IsArrival(last') /\ ~DeclaresUnavailable(last'.data[1]) /\ IsComplete(last'.data[1])) => HoldsExactly(allNodes', allEdges', last'.data[1])
                         /\ ~(IsArrival(last') /\ ~DeclaresUnavailable(last'.data[1])) => UNCHANGED <<allNodes, allEdges>>]_vars

\* C4's case: the response to a request that was in flight when a push was
\* applied has arrived after it and the mirror holds that response's two nodes.
C4_Witness == last.kind = "pull" /\ last.stale /\ ~DeclaresUnavailable(last.data[1]) /\ IsComplete(last.data[1]) /\ Len(allNodes) = 2 /\ HoldsExactly(allNodes, allEdges, last.data[1])

\* C8: a tick issues a pull request only if the last known availability is
\* true: the tick that follows the processing of a payload that declares
\* unavailability, and the tick before any payload was processed, issue none.
C8_TickPullsOnlyWhenAvailable == [][(last'.kind = "tick" /\ last'.issued) => (last.kind # "init" /\ (IsArrival(last) => ~DeclaresUnavailable(last.data[1])))]_vars

\* C9: a pull request that rejects leaves the mirror unchanged, the overlay
\* shown and the availability flag false, as a response that declares
\* unavailability does.
C9_FailureLikeUnavailable == [][last'.kind = "pullFailure" => (UNCHANGED <<allNodes, allEdges>> /\ overlay' /\ ~dockerAvailable')]_vars

\* C10, as claimed: a close event and an error event each set the indicator to
\* disconnected and schedule exactly one reconnect attempt.
C10_CloseOrErrorSchedules == [][last'.kind \in {"close", "error"} => (~connected' /\ reconnectTimers' = reconnectTimers + 1)]_vars

\* C10, amended: a close event sets the indicator to disconnected and schedules
\* exactly one reconnect attempt; an error event sets the indicator to
\* disconnected and schedules none, the close event that follows it does; and
\* every close or error is eventually followed by a new connection attempt.
C10_CloseSchedulesReconnect ==
    /\ [][last'.kind = "close" => (~connected' /\ reconnectTimers' = reconnectTimers + 1)]_vars
    /\ [][last'.kind = "error" => (~connected' /\ reconnectTimers' = reconnectTimers /\ sockets'.failed = sockets.failed + 1)]_vars
    /\ (last.kind \in {"close", "error"}) ~> (last.kind = "reconnect")

\* C10's case: after a loss, the reconnect timer has fired and the new socket
\* is connecting, the only one.
C10_Witness == last.kind = "reconnect" /\ sockets = [connecting |-> 1, open |-> 0, failed |-> 0] /\ reconnectTimers = 0 /\ ~connected

\* The ids on which the call log `log` issues the operation `op` of `store`.
Touched(log, op, store) == UNION {SeqRange(log[i].ids) : i \in {j \in 1..Len(log) : log[j].op = op /\ log[j].store = store}}

\* The call log `log` clears `store`, which removes every item it holds.
Clears(log, store) == \E i \in 1..Len(log) : log[i].op = "clear" /\ log[i].store = store

\* No two items of the store share an id.
NoDuplicates(ds) == \A i, j \in 1..Len(ds) : ds[i].id = ds[j].id => i = j

\* C5: applying a snapshot a second time in a row leaves both stores as the
\* first application left them, and no store holds an id twice.
C5_ReconcileIdempotent == [][(last'.kind = "reconcile" /\ last'.repeat) => (UNCHANGED <<allNodes, allEdges>> /\ NoDuplicates(allNodes') /\ NoDuplicates(allEdges'))]_vars

\* C5's case: the snapshot with two containers and two connections was
\* applied twice in a row.
C5_Witness == last.kind = "reconcile" /\ last.repeat /\ Len(allNodes) = 2 /\ Len(allEdges) = 2

\* C6: a reconciliation issues no operation on a node or an edge that is the
\* same in the mirror before it and in the snapshot: such an item is neither
\* removed nor added again.
C6_DiffMinimal == [][last'.kind = "reconcile" =>
                       /\ \A i \in 1..Len(allNodes) : (\E j \in 1..Len(allNodes') : allNodes'[j] = allNodes[i]) => (~Clears(ops', "nodes") /\ allNodes[i].id \notin Touched(ops', "add", "nodes"))
                       /\ \A i \in 1..Len(allEdges) : (\E j \in 1..Len(allEdges') : allEdges'[j] = allEdges[i]) => (~Clears(ops', "edges") /\ allEdges[i].id \notin Touched(ops', "add", "edges"))]_vars

\* C7: in the calls of a reconciliation every addition to the node store
\* comes before every addition to the edge store, the node additions carry
\* every container of the snapshot, and so both endpoints of an added edge that
\* are containers of the snapshot are added before the edge.
C7_NodesBeforeEdges == last.kind = "reconcile" =>
    /\ \A i, j \in 1..Len(ops) : (ops[i].op = "add" /\ ops[i].store = "nodes" /\ ops[j].op = "add" /\ ops[j].store = "edges") => i < j
    /\ (Touched(ops, "add", "edges") # {} => Touched(ops, "add", "nodes") = DOMAIN last.data[1].containers[1])
    /\ \A i \in 1..Len(ops) : (ops[i].op = "add" /\ ops[i].store = "edges") =>
           \A c \in SeqRange(last.data[1].connections[1]) : \A end \in {c.source, c.target} \cap DOMAIN last.data[1].containers[1] :
               \E k \in 1..(i - 1) : ops[k].op = "add" /\ ops[k].store = "nodes" /\ end \in SeqRange(ops[k].ids)

\* C7's case: containers A and B and a connection between them were applied.
C7_Witness == last.kind = "reconcile" /\ Touched(ops, "add", "nodes") = {IdA, IdB} /\ Touched(ops, "add", "edges") # {} /\ allEdges[1].from = IdA /\ allEdges[1].to = IdB

\* The event is one of the push channel's lifecycle: the handshake completed,
\* the socket failed or closed, or the reconnect timer fired and
\* connectWebSocket created a new socket.
IsLifecycle(e) == e.kind \in {"open", "close", "error", "reconnect"}

\* C11: a lifecycle event of the push channel changes neither store, nor the
\* container list, the availability flag or the overlay, so the mirror after a
\* close, a reconnect and a handshake is the mirror before the close; and the
\* handshake leaves the indicator showing connected.
C11_LifecycleLeavesMirror == [][IsLifecycle(last') => (UNCHANGED <<allNodes, allEdges, containerList, dockerAvailable, overlay>> /\ (last'.kind = "open" => connected'))]_vars

\* C11's case: the handshake of a reconnected socket has completed (a request
\* overtaken by a push of the socket before it is still in flight), the
\* indicator shows connected and the mirror holds its two nodes and its edge.
C11_Witness == last.kind = "open" /\ pulls.stale > 0 /\ connected /\ sockets = [connecting |-> 0, open |-> 1, failed |-> 0] /\ Len(allNodes) = 2 /\ Len(allEdges) = 1 /\ ~overlay

\* The payload with each missing field replaced by its default: the empty
\* mapping, the empty sequence, the summary without counters.
Defaulted(p) == [p EXCEPT !.containers = IF @ = Absent THEN Some(<<>>) ELSE @, !.connections = IF @ = Absent THEN Some(<<>>) ELSE @, !.summary = IF @ = Absent THEN Some(EmptyObject) ELSE @]

\* C12: a payload that does not declare unavailability and lacks containers,
\* connections or summary is processed, on either path, without an exception
\* leaving the handler, and after it the mirror holds exactly the containers
\* and connections of the payload with its missing fields defaulted, a missing
\* summary shows zero counters, and the overlay is hidden.
C12_PartialIsDefaulted == (IsArrival(last) /\ ~DeclaresUnavailable(last.data[1]) /\ ~IsComplete(last.data[1])) =>
    /\ ~last.threw
    /\ HoldsExactly(allNodes, allEdges, Defaulted(last.data[1]))
    /\ (last.data[1].summary = Absent => stats = [statContainers |-> 0, statRunning |-> 0, statNetworks |-> 0, statConnections |-> 0])
    /\ ~overlay

\* The call log `log` schedules the one-shot fit: setTimeout(() => network.fit(...), 500).
SchedulesFit(log) == \E i \in 1..Len(log) : log[i].op = "setTimeout" /\ log[i].store = "fit"

\* C13: a reconciliation schedules the fit only when it takes the node store
\* from empty to non-empty: one that starts from a non-empty store and ends
\* non-empty schedules none, and one that ends empty schedules none.
C13_FitOnlyOnFirstFill == [][(last'.kind = "reconcile" /\ SchedulesFit(ops')) => (allNodes = <<>> /\ allNodes' # <<>>)]_vars

\* The message the specification expects for an unavailable payload: its
\* error text when it has one, the generic message otherwise.
ExpectedMessage(p) == IF p.error \notin {"absent", "null"} THEN p.error ELSE MsgDockerUnavailable

\* C14: after a payload that declares unavailability is processed, on either
\* path, the handler has surfaced exactly one message: the payload's error text
\* when it has one, the generic message otherwise.
C14_UnavailableSurfacesMessage == (IsArrival(last) /\ DeclaresUnavailable(last.data[1])) => last.errors = <<ExpectedMessage(last.data[1])>>

\* The sockets that have not closed: connecting, open, or failed with their
\* close event still to come.
LiveSockets == sockets.connecting + sockets.open + sockets.failed

\* C15: in every reachable state at most one socket is connecting or open and
\* at most one reconnect timer is pending, and connectWebSocket creates a
\* socket only when every socket before it has closed.
C15_SingleLiveConnection ==
    /\ [](sockets.connecting + sockets.open <= 1 /\ reconnectTimers <= 1)
    /\ [][last'.kind = "reconnect" => (LiveSockets = 0 /\ sockets'.connecting = 1)]_vars

\* C15's case: the socket that delivered a push has closed, its reconnect
\* timer has fired and the socket created in its place is the only one.
C15_Witness == last.kind = "reconnect" /\ pulls.stale > 0 /\ sockets.connecting = 1 /\ LiveSockets = 1 /\ reconnectTimers = 0

\* The connection state of the specification: open while a socket is open,
\* connecting while one is connecting, closed (retrying) otherwise, that is
\* from the error or close of the socket until the reconnect timer fires.
ConnState == IF sockets.open > 0 THEN "open" ELSE IF sockets.connecting > 0 THEN "connecting" ELSE "closed"

\* C16: the connection state starts as connecting; it only moves from
\* connecting to open, by the handshake, from connecting or open to closed, by
\* a close or an error, and from closed to connecting, by the reconnect
\* attempt; and in every reachable state the indicator shows connected only if
\* the state is open, so it shows disconnected whenever the state is closed.
C16_ConnectionStateMachine ==
    /\ ConnState = "connecting"
    /\ [][ConnState' # ConnState =>
             \/ ConnState = "connecting" /\ ConnState' = "open" /\ last'.kind = "open"
             \/ ConnState \in {"connecting", "open"} /\ ConnState' = "closed" /\ last'.kind \in {"close", "error"}
             \/ ConnState = "closed" /\ ConnState' = "connecting" /\ last'.kind = "reconnect"]_vars
    /\ []((connected => ConnState = "open") /\ (ConnState = "closed" => ~connected))

\* C16's case: the socket that was open and delivered a push has closed, the
\* state is closed with the reconnect timer pending and the indicator shows
\* disconnected.
C16_Witness == last.kind = "close" /\ pulls.stale > 0 /\ ConnState = "closed" /\ reconnectTimers = 1 /\ ~connected

\* Every edge of the edge store has both endpoints in the node store.
NoDanglingEdge(nodes, edges) == \A i \in 1..Len(edges) : {edges[i].from, edges[i].to} \subseteq {nodes[j].id : j \in 1..Len(nodes)}

\* Every connection of the payload has a container key as source and as target.
WellFormed(p) == \A i \in 1..Len(p.connections[1]) : {p.connections[1][i].source, p.connections[1][i].target} \subseteq DOMAIN p.containers[1]

\* C17: when the mirror has no dangling edge and the snapshot is well formed,
\* then after every store call of the reconciliation, not only after the
\* last, every edge of the edge store has both endpoints in the node store.
C17_NoDanglingEdgeDuring == [][(last'.kind = "reconcile" /\ NoDanglingEdge(allNodes, allEdges) /\ WellFormed(last'.data[1])) =>
                                 \A k \in 1..Len(updateVisualizationSteps(Page, last'.data[1])) :
                                     NoDanglingEdge(updateVisualizationSteps(Page, last'.data[1])[k].allNodes, updateVisualizationSteps(Page, last'.data[1])[k].allEdges)]_vars

\* C18: a handler runs from its start to its end with no other handler in
\* between, so the stores change only by whole reconciliations: both stores
\* start empty, and every step that changes a store is the arrival of one
\* payload, on the pull or on the push path, and leaves the stores holding
\* exactly that payload's containers and connections, even when the handler
\* ends with an exception.  No handler therefore starts on stores that hold a
\* part of one snapshot, or parts of two.
C18_WholeSnapshotsOnly ==
    /\ allNodes = <<>> /\ allEdges = <<>>
    /\ [][<<allNodes, allEdges>>' # <<allNodes, allEdges>> =>
             /\ IsArrival(last')
             /\ last'.data[1].containers # Absent /\ last'.data[1].connections # Absent
             /\ HoldsExactly(allNodes', allEdges', last'.data[1])]_vars

\* C18's case: a push message without summary replaced both stores by its two
\* containers and its connection before its handler threw.
C18_Witness == last.kind = "push" /\ last.threw /\ last.data[1].summary = Absent /\ last.data[1].containers # Absent /\ last.data[1].connections # Absent /\ Len(allNodes) = 2 /\ Len(allEdges) = 1 /\ HoldsExactly(allNodes, allEdges, last.data[1])

\* The status of container id in the payload p.
StatusIn(p, id) == p.containers[1][id].status

\* C19: after every reconciliation each node of the node store is a container
\* of the snapshot applied and has the success palette iff that container's
\* status is exactly 'running', the failure palette otherwise; and a container
\* whose status moves between 'running' and another status from one snapshot
\* to the next changes colour.
C19_ColourFollowsStatus ==
    /\ [](last.kind = "reconcile" =>
             \A i \in 1..Len(allNodes) :
                 /\ allNodes[i].id \in DOMAIN last.data[1].containers[1]
                 /\ (allNodes[i].color = ColorRunning <=> StatusIn(last.data[1], allNodes[i].id) = "running")
                 /\ (StatusIn(last.data[1], allNodes[i].id) # "running" => allNodes[i].color = ColorStopped))
    /\ [][(last.kind = "reconcile" /\ last'.kind = "reconcile") =>
             \A i \in 1..Len(allNodes), j \in 1..Len(allNodes') :
                 (allNodes[i].id = allNodes'[j].id /\ (StatusIn(last.data[1], allNodes[i].id) = "running") # (StatusIn(last'.data[1], allNodes[i].id) = "running"))
                     => allNodes'[j].color # allNodes[i].color]_vars

\* C19's case: web is 'running' and has the success palette, db is 'Running'
\* and has the failure palette.
C19_Witness == last.kind = "reconcile" /\ Len(allNodes) = 2 /\ StatusIn(last.data[1], IdA) = "running" /\ StatusIn(last.data[1], IdB) = "Running" /\ allNodes[1].color = ColorRunning /\ allNodes[2].color = ColorStopped

====
